---- MODULE Spec2Model ----
(***************************************************************************)
(* Model of the action endpoint of rasa_sdk (src/rasa_sdk/endpoint.py):    *)
(* the Sanic application built by create_app, with its /webhook, /actions  *)
(* and /health routes and its catch-all exception handler.                 *)
(*                                                                         *)
(* One worker process is modelled.  Its handlers are coroutines on one     *)
(* event loop: a handler runs without interruption up to an `await` that   *)
(* suspends (the invocation of the action inside executor.run), and the    *)
(* synchronous requests.post of the forwarding step occupies the event     *)
(* loop until the target has answered.                                     *)
(***************************************************************************)
EXTENDS Integers, Sequences, FiniteSets, TLC

\* ------------------------------------------------------------------ bounds
MaxCalls == 2                       \* webhook calls in flight at a time

Calls == 1 .. MaxCalls

\* ------------------------------------------------------------ JSON values
Absent == "<absent>"                \* a key the dictionary does not have
NoVersion == <<>>                   \* action_call.get("version") is None

Greet == "action_greet"
New == "action_new"
Missing == "action_missing"

CallNames == {Greet, New, Missing, "", Absent}

ServerVersion == <<3, 4, 2>>
CallVersions == {NoVersion, <<3, 1, 0>>, <<2, 9, 0>>}

JNull == [kind |-> "null"]
JList == [kind |-> "list"]
JCalls == [kind : {"dict"}, next_action : CallNames, version : CallVersions]
JValues == {JNull, JList} \cup JCalls

\* ------------------------------------------------------- inbound requests
\* The body of a request: its bytes are a zlib stream or not (zipped), and
\* the text they carry is empty, not JSON, or the JSON text of a value.
EmptyText == [kind |-> "empty"]
GarbageText == [kind |-> "garbage"]
JsonText(v) == [kind |-> "json", val |-> v]
Texts == {EmptyText, GarbageText} \cup {JsonText(v) : v \in JValues}

Requests == [deflate : BOOLEAN, zipped : BOOLEAN, text : Texts]

\* the requests that are explored in flight together with other calls: an
\* uncompressed call without a version for one of the named actions
PlainRequests ==
    {[deflate |-> FALSE, zipped |-> FALSE,
      text |-> JsonText([kind |-> "dict", next_action |-> n, version |-> NoVersion])] :
        n \in {Greet, New, Missing}}

Ok(v) == [ok |-> TRUE, val |-> v]
Raise(e) == [ok |-> FALSE, exc |-> e]

\* json.loads on a text
JsonLoads(t) == IF t.kind = "json" THEN Ok(t.val) ELSE Raise(<<"JSONDecodeError">>)

\* sanic's request.json: None for an empty body, the parsed body, or a
\* failure when the bytes of the body are not JSON
RequestJson(r) ==
    IF r.zipped THEN Raise(<<"Failed when parsing body as json">>)
    ELSE IF r.text.kind = "empty" THEN Ok(JNull)
    ELSE IF r.text.kind = "json" THEN Ok(r.text.val)
    ELSE Raise(<<"Failed when parsing body as json">>)

\* webhook, decoding of the body
DecodeBody(r) ==
    IF r.deflate
    THEN IF r.zipped THEN JsonLoads(r.text) ELSE Raise(<<"zlib.error">>)
    ELSE RequestJson(r)

\* ------------------------------------------------- compatibility gate
\* utils.check_version_compatibility: an absent version passes, otherwise
\* the major components have to agree
Major(v) == v[1]

Compatible(v) == v = NoVersion \/ Major(v) = Major(ServerVersion)

\* --------------------------------------------------------------- registry
\* A registry snapshot is the sequence of its names in insertion order.
Range(s) == {s[i] : i \in DOMAIN s}

OldPackage == <<Greet>>
NewPackage == <<Greet, New>>
InvalidPackage == <<"<invalid>">>    \* a package the loader fails on
Snapshots == {OldPackage, NewPackage}
Packages == Snapshots \cup {InvalidPackage}

\* the loader collaborator
Load(pkg) == IF pkg = InvalidPackage THEN Raise(<<"loader failed">>) ELSE Ok(pkg)

\* executor.reload(): a fresh complete set replaces the active one
Reload(reg, pkg) == Load(pkg)

\* registry lookup of executor.run
Lookup(reg, name) == name \in Range(reg)

\* executor.actions.keys()
RegisteredNames(reg) == reg

\* ------------------------------------------------------ dispatch outcomes
ActionResult(name) == [events |-> <<name>>, responses |-> <<name>>]

Success(name) ==
    [kind |-> "Success", action_name |-> name, result |-> ActionResult(name)]
Rejected(name) ==
    [kind |-> "Rejected", action_name |-> name,
     message |-> <<"rejected execution", name>>]
NotFound(name) ==
    [kind |-> "NotFound", action_name |-> name,
     message |-> <<"No registered action found for name", name>>]
Failed(name) ==
    [kind |-> "Error", action_name |-> name,
     message |-> <<"action failed", name>>]

\* what the invocation of a registered action can end with
HandlerOutcomes(name) == {Success(name), Rejected(name), Failed(name)}

\* --------------------------------------------------------------- responses
Response(s, b) == [status |-> s, body |-> b]

\* exception_handler: the body echoes request.json; when the body of the
\* request is not JSON, request.json fails inside the handler and the
\* framework answers in its place, with a status of its own choice
FrameworkStatuses == {400, 500}

ExceptionResponses(r, msg) ==
    LET j == RequestJson(r) IN
    IF j.ok
    THEN {Response(500, [error |-> msg, request_body |-> j.val])}
    ELSE {Response(s, [framework |-> <<"error while handling error">>]) :
            s \in FrameworkStatuses}

NoResponse == Response(0, [none |-> <<>>])

\* ------------------------------------------------------ forwarding target
\* What the target can do with a forwarded call: answer with a JSON body,
\* answer with an error status, answer with a body that is not JSON, or be
\* unreachable.  A target that stays silent does none of these.
TargetResults ==
    {[events |-> <<"remote">>, responses |-> <<>>],
     [events |-> <<>>, responses |-> <<"remote">>]}
TargetBodies == [val : TargetResults, fmt : {"compact", "spaced"}]
TargetOutcomes ==
    {[kind |-> "ok", body |-> b] : b \in TargetBodies}
        \cup {[kind |-> k] : k \in {"http_error", "unreachable", "not_json"}}
NoReply == [kind |-> "none"]

\* reply.json(): the value of the body, whatever its layout
ReplyJson(b) == b.val

\* ForwardedRequest without the version the caller declared
ForwardedRequest_DropsVersion(call) ==
    [deflate |-> FALSE, zipped |-> FALSE,
     text |-> JsonText([call EXCEPT !.version = NoVersion])]

\* requests.post(forward_url, json=action_call): the request put on the wire
ForwardedRequest(call) ==
    [deflate |-> FALSE, zipped |-> FALSE, text |-> JsonText(call)]

\* ------------------------------------------------------------ the webhook
Step(next, resp, tail) == [next |-> next, resp |-> resp, tail |-> tail]

\* AfterRun with the rejection caught by the not-found branch
AfterRun_ForwardsRejection(o, r, fwd) ==
    CASE o.kind = "Success" ->
            {Step("done", Response(200, o.result), <<"Success">>)}
      [] o.kind \in {"Rejected", "NotFound"} ->
            IF fwd
            THEN {Step("forwarding", NoResponse, <<"NotFound", "Forwarded">>)}
            ELSE {Step("done",
                       Response(404, [error |-> o.message,
                                      action_name |-> o.action_name]),
                       <<"NotFound", "NotFoundFinal">>)}
      [] OTHER ->
            {Step("done", x, <<"InternalFailure">>) :
                x \in ExceptionResponses(r, o.message)}

\* AfterRun without the test of enable_forwarding
AfterRun_AlwaysForwards(o, r, fwd) ==
    CASE o.kind = "Success" ->
            {Step("done", Response(200, o.result), <<"Success">>)}
      [] o.kind = "Rejected" ->
            {Step("done",
                  Response(400, [error |-> o.message,
                                 action_name |-> o.action_name]),
                  <<"Rejected">>)}
      [] o.kind = "NotFound" ->
            {Step("forwarding", NoResponse, <<"NotFound", "Forwarded">>)}
      [] OTHER ->
            {Step("done", x, <<"InternalFailure">>) :
                x \in ExceptionResponses(r, o.message)}

\* AfterRun with a catch-all that answers a failed action like a success
AfterRun_SwallowsFailure(o, r, fwd) ==
    CASE o.kind = "Rejected" ->
            {Step("done",
                  Response(400, [error |-> o.message,
                                 action_name |-> o.action_name]),
                  <<"Rejected">>)}
      [] o.kind = "NotFound" ->
            IF fwd
            THEN {Step("forwarding", NoResponse, <<"NotFound", "Forwarded">>)}
            ELSE {Step("done",
                       Response(404, [error |-> o.message,
                                      action_name |-> o.action_name]),
                       <<"NotFound", "NotFoundFinal">>)}
      [] OTHER ->
            {Step("done", Response(200, ActionResult(o.action_name)), <<"Success">>)}

\* AfterRun with the forwarding branch catching every exception
AfterRun_ForwardsFailure(o, r, fwd) ==
    CASE o.kind = "Success" ->
            {Step("done", Response(200, o.result), <<"Success">>)}
      [] o.kind = "Rejected" ->
            {Step("done",
                  Response(400, [error |-> o.message,
                                 action_name |-> o.action_name]),
                  <<"Rejected">>)}
      [] OTHER ->
            IF fwd
            THEN {Step("forwarding", NoResponse, <<"NotFound", "Forwarded">>)}
            ELSE {Step("done",
                       Response(404, [error |-> o.message,
                                      action_name |-> o.action_name]),
                       <<"NotFound", "NotFoundFinal">>)}

\* webhook, from the return of executor.run to the response or the
\* forwarding request
AfterRun(o, r, fwd) ==
    CASE o.kind = "Success" ->
            {Step("done", Response(200, o.result), <<"Success">>)}
      [] o.kind = "Rejected" ->
            {Step("done",
                  Response(400, [error |-> o.message,
                                 action_name |-> o.action_name]),
                  <<"Rejected">>)}
      [] o.kind = "NotFound" ->
            IF fwd
            THEN {Step("forwarding", NoResponse, <<"NotFound", "Forwarded">>)}
            ELSE {Step("done",
                       Response(404, [error |-> o.message,
                                      action_name |-> o.action_name]),
                       <<"NotFound", "NotFoundFinal">>)}
      [] OTHER ->
            {Step("done", x, <<"InternalFailure">>) :
                x \in ExceptionResponses(r, o.message)}

\* AfterForward keeping only the events of the forwarded result
AfterForward_DropsResponses(t, name, r) ==
    LET failed == Step("done",
                       Response(504, [error |-> <<"Forwarding request failed">>,
                                      action_name |-> name]),
                       <<"ForwardingFailed">>)
        uncaught == {Step("done", x, <<"InternalFailure">>) :
                        x \in ExceptionResponses(r, <<"JSONDecodeError">>)}
    IN CASE t.kind = "ok" ->
              {Step("done",
                    Response(200, [events |-> ReplyJson(t.body).events,
                                   responses |-> <<>>]),
                    <<"SuccessRemote">>)}
         [] t.kind = "not_json" -> {failed} \cup uncaught
         [] OTHER -> {failed}

\* AfterForward answering a failed forwarding like a missing action
AfterForward_FailureAsNotFound(t, name, r) ==
    LET failed == Step("done",
                       Response(404, [error |-> NotFound(name).message,
                                      action_name |-> name]),
                       <<"ForwardingFailed">>)
        uncaught == {Step("done", x, <<"InternalFailure">>) :
                        x \in ExceptionResponses(r, <<"JSONDecodeError">>)}
    IN CASE t.kind = "ok" ->
              {Step("done", Response(200, ReplyJson(t.body)), <<"SuccessRemote">>)}
         [] t.kind = "not_json" -> {failed} \cup uncaught
         [] OTHER -> {failed}

\* AfterForward posting the call again after a failed attempt
AfterForward_Retries(t, name, r) ==
    CASE t.kind = "ok" ->
            {Step("done", Response(200, ReplyJson(t.body)), <<"SuccessRemote">>)}
      [] OTHER -> {Step("forwarding", NoResponse, <<"Forwarded">>)}

\* webhook, from the answer of the target to the response.  A body that is
\* not JSON makes reply.json() fail with an exception that is a
\* RequestException or not, depending on the requests library in use.
AfterForward(t, name, r) ==
    LET failed == Step("done",
                       Response(504, [error |-> <<"Forwarding request failed">>,
                                      action_name |-> name]),
                       <<"ForwardingFailed">>)
        uncaught == {Step("done", x, <<"InternalFailure">>) :
                        x \in ExceptionResponses(r, <<"JSONDecodeError">>)}
    IN CASE t.kind = "ok" ->
              {Step("done", Response(200, ReplyJson(t.body)), <<"SuccessRemote">>)}
         [] t.kind = "not_json" -> {failed} \cup uncaught
         [] OTHER -> {failed}

\* Gate letting through only the server's own version
Gate_ExactVersion(call, reg, pkg, ar) ==
    IF call.version # NoVersion /\ call.version # ServerVersion
    THEN [ok |-> FALSE, exc |-> <<"IncompatibleVersionError">>,
          trace |-> <<"CompatibilityChecked", "RejectedAtGate">>]
    ELSE IF ~ar
    THEN [ok |-> TRUE, reg |-> reg, trace |-> <<"CompatibilityChecked">>]
    ELSE LET l == Reload(reg, pkg) IN
         IF l.ok
         THEN [ok |-> TRUE, reg |-> l.val,
               trace |-> <<"CompatibilityChecked", "Reload">>]
         ELSE [ok |-> FALSE, exc |-> l.exc,
               trace |-> <<"CompatibilityChecked", "Reload", "InternalFailure">>]

\* Gate with the reload placed before the version check
Gate_ReloadsFirst(call, reg, pkg, ar) ==
    LET l == IF ar THEN Reload(reg, pkg) ELSE Ok(reg)
        pre == IF ar THEN <<"Reload">> ELSE <<>>
    IN IF ~l.ok
       THEN [ok |-> FALSE, exc |-> l.exc, trace |-> pre \o <<"InternalFailure">>]
       ELSE IF ~Compatible(call.version)
       THEN [ok |-> FALSE, exc |-> <<"IncompatibleVersionError">>,
             trace |-> pre \o <<"CompatibilityChecked", "RejectedAtGate">>]
       ELSE [ok |-> TRUE, reg |-> l.val,
             trace |-> pre \o <<"CompatibilityChecked">>]

\* Gate going on to executor.run while the reload has registered only the
\* first action of the package
Gate_TornReload(call, reg, pkg, ar) ==
    IF ~Compatible(call.version)
    THEN [ok |-> FALSE, exc |-> <<"IncompatibleVersionError">>,
          trace |-> <<"CompatibilityChecked", "RejectedAtGate">>]
    ELSE IF ~ar
    THEN [ok |-> TRUE, reg |-> reg, trace |-> <<"CompatibilityChecked">>]
    ELSE LET l == Reload(reg, pkg) IN
         IF l.ok
         THEN [ok |-> TRUE, reg |-> SubSeq(l.val, 1, 1),
               trace |-> <<"CompatibilityChecked", "Reload">>]
         ELSE [ok |-> FALSE, exc |-> l.exc,
               trace |-> <<"CompatibilityChecked", "Reload", "InternalFailure">>]

\* webhook, the version check and the reload before executor.run
Gate(call, reg, pkg, ar) ==
    IF ~Compatible(call.version)
    THEN [ok |-> FALSE, exc |-> <<"IncompatibleVersionError">>,
          trace |-> <<"CompatibilityChecked", "RejectedAtGate">>]
    ELSE IF ~ar
    THEN [ok |-> TRUE, reg |-> reg, trace |-> <<"CompatibilityChecked">>]
    ELSE LET l == Reload(reg, pkg) IN
         IF l.ok
         THEN [ok |-> TRUE, reg |-> l.val,
               trace |-> <<"CompatibilityChecked", "Reload">>]
         ELSE [ok |-> FALSE, exc |-> l.exc,
               trace |-> <<"CompatibilityChecked", "Reload", "InternalFailure">>]

Entry(next, resp, trace, reg, seen, outcome) ==
    [next |-> next, resp |-> resp, trace |-> trace, reg |-> reg, seen |-> seen,
     outcome |-> outcome]

NoSnapshot == <<>>
NoOutcome == [kind |-> "none"]

\* webhook, from the arrival of the request to the first point where the
\* coroutine gives up the event loop or has its response
WebhookEntry(r, reg, pkg, ar, fwd) ==
    LET d == DecodeBody(r) IN
    IF ~d.ok
    THEN {Entry("done", x, <<"Received", "InternalFailure">>, reg, NoSnapshot,
                NoOutcome) :
            x \in ExceptionResponses(r, d.exc)}
    ELSE IF d.val = JNull
    THEN {Entry("done", Response(400, [error |-> <<"Invalid body request">>]),
                <<"Received", "InvalidBody">>, reg, NoSnapshot, NoOutcome)}
    ELSE IF d.val.kind # "dict"
    THEN {Entry("done", x, <<"Received", "InternalFailure">>, reg, NoSnapshot,
                NoOutcome) :
            x \in ExceptionResponses(r, <<"AttributeError">>)}
    ELSE LET g == Gate(d.val, reg, pkg, ar) IN
         IF ~g.ok
         THEN {Entry("done", x, <<"Received">> \o g.trace, reg, NoSnapshot,
                     NoOutcome) :
                 x \in ExceptionResponses(r, g.exc)}
         ELSE LET name == d.val.next_action
                  t == <<"Received">> \o g.trace \o <<"Dispatched", "Lookup">>
              IN IF Lookup(g.reg, name)
                 THEN {Entry("running", NoResponse, t \o <<"Invoked">>,
                             g.reg, g.reg, NoOutcome)}
                 ELSE {Entry(a.next, a.resp, t \o a.tail, g.reg, g.reg,
                             NotFound(name)) :
                         a \in AfterRun(NotFound(name), r, fwd)}

\* ------------------------------------------------------------- /actions
GetRequest == [deflate |-> FALSE, zipped |-> FALSE, text |-> EmptyText]

Listing(reg) == [i \in DOMAIN RegisteredNames(reg) |-> [name |-> RegisteredNames(reg)[i]]]

\* ActionsEntry answering with the old list when the reload fails
ActionsEntry_SwallowsFailure(reg, pkg, ar) ==
    LET l == IF ar THEN Reload(reg, pkg) ELSE Ok(reg) IN
    IF l.ok
    THEN {[resp |-> Response(200, Listing(l.val)), reg |-> l.val]}
    ELSE {[resp |-> Response(200, Listing(reg)), reg |-> reg]}

\* ActionsEntry building the list before it reloads
ActionsEntry_ListsBeforeReload(reg, pkg, ar) ==
    LET l == IF ar THEN Reload(reg, pkg) ELSE Ok(reg) IN
    IF l.ok
    THEN {[resp |-> Response(200, Listing(reg)), reg |-> l.val]}
    ELSE {[resp |-> x, reg |-> reg] : x \in ExceptionResponses(GetRequest, l.exc)}

\* actions: the reload of hot-reload mode, then the list of the names
ActionsEntry(reg, pkg, ar) ==
    LET l == IF ar THEN Reload(reg, pkg) ELSE Ok(reg) IN
    IF l.ok
    THEN {[resp |-> Response(200, Listing(l.val)), reg |-> l.val]}
    ELSE {[resp |-> x, reg |-> reg] : x \in ExceptionResponses(GetRequest, l.exc)}

\* health
HealthResponse == Response(200, [status |-> <<"ok">>])

\* ------------------------------------------------------------------ state
VARIABLES
    auto_reload,          \* create_app argument
    enable_forwarding,    \* create_app argument
    actions,              \* executor.actions, the active registry snapshot
    package,              \* what the loader finds in the action package
    pc,                   \* per call: "idle", "running" or "forwarding"
    req,                  \* per call: the request being served
    trace,                \* per call: the stages it has gone through
    seen,                 \* per call: the registry snapshot its lookup read
    outcome,              \* per call: what executor.run ended with
    sent,                 \* per call: the requests posted to the target
    target,               \* the forwarding target: "answering" or "silent"
    last                  \* the exchange completed most recently

vars == <<auto_reload, enable_forwarding, actions, package,
          pc, req, trace, seen, outcome, sent, target, last>>
config == <<auto_reload, enable_forwarding>>
slots == <<pc, req, trace, seen, outcome, sent>>

NoRequest == [none |-> TRUE]
NoExchange == [endpoint |-> "none"]

\* create_app: the registry is loaded from the package once
Init ==
    /\ auto_reload \in BOOLEAN
    /\ enable_forwarding \in BOOLEAN
    /\ package \in Snapshots
    /\ actions = package
    /\ pc = [c \in Calls |-> "idle"]
    /\ req = [c \in Calls |-> NoRequest]
    /\ trace = [c \in Calls |-> <<>>]
    /\ seen = [c \in Calls |-> NoSnapshot]
    /\ outcome = [c \in Calls |-> NoOutcome]
    /\ sent = [c \in Calls |-> <<>>]
    /\ target \in {"answering", "silent"}
    /\ last = NoExchange

\* the synchronous requests.post keeps the event loop of the worker busy
Blocked == \E c \in Calls : pc[c] = "forwarding"

ActionCall(r) == DecodeBody(r).val

\* the call goes on to its next stage, or its response leaves; last keeps
\* a completed exchange until the next call arrives
Continue(c, r, next, resp, tr, sn, o, reply) ==
    IF next = "done"
    THEN /\ last' = [endpoint |-> "webhook", req |-> r, resp |-> resp,
                     trace |-> tr, seen |-> sn, outcome |-> o,
                     sent |-> sent[c], reply |-> reply]
         /\ outcome' = [outcome EXCEPT ![c] = NoOutcome]
         /\ pc' = [pc EXCEPT ![c] = "idle"]
         /\ req' = [req EXCEPT ![c] = NoRequest]
         /\ trace' = [trace EXCEPT ![c] = <<>>]
         /\ seen' = [seen EXCEPT ![c] = NoSnapshot]
         /\ sent' = [sent EXCEPT ![c] = <<>>]
    ELSE /\ pc' = [pc EXCEPT ![c] = next]
         /\ req' = [req EXCEPT ![c] = r]
         /\ trace' = [trace EXCEPT ![c] = tr]
         /\ seen' = [seen EXCEPT ![c] = sn]
         /\ outcome' = [outcome EXCEPT ![c] = o]
         /\ sent' = [sent EXCEPT ![c] =
                        IF next = "forwarding"
                        THEN Append(@, ForwardedRequest(ActionCall(r)))
                        ELSE @]
         /\ last' = IF pc[c] = "idle" THEN NoExchange ELSE last

\* Any request arrives while the worker serves no other call; while calls
\* are in flight, the requests that join them are the plain ones.
Quiet == \A c \in Calls : pc[c] = "idle"

Arrivals ==
    IF Quiet THEN Requests
    ELSE IF \A c \in Calls : pc[c] # "idle" => req[c] \in PlainRequests
    THEN PlainRequests
    ELSE {}

\* POST /webhook arrives, is given the first free slot and runs up to its
\* first suspension
Webhook(c) ==
    /\ ~Blocked
    /\ pc[c] = "idle"
    /\ \A b \in Calls : b < c => pc[b] # "idle"
    /\ \E r \in Arrivals :
         \E e \in WebhookEntry(r, actions, package, auto_reload, enable_forwarding) :
            /\ actions' = e.reg
            /\ Continue(c, r, e.next, e.resp, e.trace, e.seen, e.outcome, NoReply)
    /\ UNCHANGED <<config, package, target>>

\* HandlerReturns taking the call from a variable shared by the calls in
\* flight
HandlerReturns_SharedCall(c) ==
    /\ ~Blocked
    /\ pc[c] = "running"
    /\ \E b \in Calls :
         /\ pc[b] = "running"
         /\ \E o \in HandlerOutcomes(ActionCall(req[b]).next_action) :
              \E a \in AfterRun(o, req[b], enable_forwarding) :
                 Continue(c, req[c], a.next, a.resp, trace[c] \o a.tail, seen[c],
                          o, NoReply)
    /\ UNCHANGED <<config, actions, package, target>>

\* the awaited action of executor.run finishes
HandlerReturns(c) ==
    /\ ~Blocked
    /\ pc[c] = "running"
    /\ \E o \in HandlerOutcomes(ActionCall(req[c]).next_action) :
         \E a \in AfterRun(o, req[c], enable_forwarding) :
            Continue(c, req[c], a.next, a.resp, trace[c] \o a.tail, seen[c],
                     o, NoReply)
    /\ UNCHANGED <<config, actions, package, target>>

\* requests.post returns or raises
TargetAnswers(c) ==
    /\ pc[c] = "forwarding"
    /\ target = "answering"
    /\ \E t \in TargetOutcomes :
         \E a \in AfterForward(t, ActionCall(req[c]).next_action, req[c]) :
            Continue(c, req[c], a.next, a.resp, trace[c] \o a.tail, seen[c],
                     outcome[c], t)
    /\ UNCHANGED <<config, actions, package, target>>

\* GET /actions
Actions ==
    /\ ~Blocked
    /\ \E e \in ActionsEntry(actions, package, auto_reload) :
         /\ actions' = e.reg
         /\ last' = [endpoint |-> "actions", resp |-> e.resp,
                     before |-> actions, loaded |-> package]
    /\ UNCHANGED <<config, package, slots, target>>

\* GET /health
Health ==
    /\ ~Blocked
    /\ last' = [endpoint |-> "health", resp |-> HealthResponse]
    /\ UNCHANGED <<config, actions, package, slots, target>>

\* the action package changes on disk
EditPackage ==
    /\ package' \in Packages \ {package}
    /\ UNCHANGED <<config, actions, slots, target, last>>

\* the forwarding target stops answering, or answers again
TargetChanges ==
    /\ target' \in {"answering", "silent"} \ {target}
    /\ UNCHANGED <<config, actions, package, slots, last>>

Next ==
    \/ \E c \in Calls : Webhook(c)
    \/ \E c \in Calls : HandlerReturns(c)
    \/ \E c \in Calls : TargetAnswers(c)
    \/ Actions
    \/ Health
    \/ EditPackage
    \/ TargetChanges

Spec == Init /\ [][Next]_vars

\* The event loop resumes a coroutine whose awaited action has finished, and
\* a target that is answering does answer.  Nothing makes a silent target
\* answer, and the worker has no step of its own for a call in forwarding.
Fairness ==
    \A c \in Calls : WF_vars(HandlerReturns(c)) /\ WF_vars(TargetAnswers(c))

FairSpec == Spec /\ Fairness

\* ------------------------------------------------------------ properties
\* the completed webhook call of last
Served == last.endpoint = "webhook"

\* the completed call reached the registry lookup and its name was not there
Unregistered ==
    /\ Served
    /\ last.seen # NoSnapshot
    /\ ActionCall(last.req).next_action \notin Range(last.seen)

\* C1: a call whose handler signals rejection never has a request sent to
\* the forwarding target, with forwarding enabled or not, and ends with a
\* 400 response that carries the rejection message and the action's name.
C1_RejectionNeverForwarded ==
    /\ \A c \in Calls :
          outcome[c].kind = "Rejected" => pc[c] # "forwarding" /\ sent[c] = <<>>
    /\ (Served /\ last.outcome.kind = "Rejected") =>
          /\ last.sent = <<>>
          /\ last.reply = NoReply
          /\ last.resp =
                Response(400, [error |-> last.outcome.message,
                               action_name |-> ActionCall(last.req).next_action])

C1_Witness ==
    /\ Served
    /\ last.outcome.kind = "Rejected"
    /\ enable_forwarding
    /\ target = "answering"

\* C2: with forwarding disabled, a call for a name that is not in the
\* registry ends with a 404 response made of an error message and the
\* requested action_name, and no request goes to a forwarding target.
C2_NotFoundWithoutForwarding ==
    ~enable_forwarding =>
        /\ \A c \in Calls : pc[c] # "forwarding" /\ sent[c] = <<>>
        /\ Unregistered =>
              /\ last.sent = <<>>
              /\ last.resp.status = 404
              /\ DOMAIN last.resp.body = {"error", "action_name"}
              /\ last.resp.body.error # <<>>
              /\ last.resp.body.action_name = ActionCall(last.req).next_action

C2_Witness ==
    /\ ~enable_forwarding
    /\ Unregistered
    /\ ActionCall(last.req).next_action = Missing

C4_ForwardingFailureDistinct ==
    (Unregistered /\ enable_forwarding /\ last.reply.kind = "unreachable") =>
        LET name == ActionCall(last.req).next_action
            plain == AfterRun(NotFound(name), last.req, FALSE)
        IN /\ last.resp =
                 Response(504, [error |-> <<"Forwarding request failed">>,
                                action_name |-> name])
           /\ \A a \in plain :
                 /\ a.resp.status # last.resp.status
                 /\ a.resp.body # last.resp.body

C4_Witness ==
    /\ Unregistered
    /\ enable_forwarding
    /\ last.reply.kind = "unreachable"
    /\ ActionCall(last.req).next_action = Missing

\* the completed call carried a call dictionary
Decoded ==
    /\ Served
    /\ DecodeBody(last.req).ok
    /\ DecodeBody(last.req).val.kind = "dict"

\* the completed call declared a version of another major than the server's
Incompatible ==
    /\ Decoded
    /\ ActionCall(last.req).version # NoVersion
    /\ ActionCall(last.req).version[1] # ServerVersion[1]

Count(tr, stage) == Cardinality({i \in DOMAIN tr : tr[i] = stage})

\* C5: a call that declares a version of another major than the server's
\* fails at the compatibility check before anything else happens: no
\* reload, no registry lookup (the count of lookups is zero) and no handler
\* invocation are part of the call, with auto_reload on or off, and no such
\* call is ever found in flight.
C5_IncompatibleFailsFirst ==
    /\ \A c \in Calls :
          pc[c] # "idle" =>
              \/ ActionCall(req[c]).version = NoVersion
              \/ ActionCall(req[c]).version[1] = ServerVersion[1]
    /\ Incompatible =>
          /\ last.trace = <<"Received", "CompatibilityChecked", "RejectedAtGate">>
          /\ Count(last.trace, "Reload") = 0
          /\ Count(last.trace, "Lookup") = 0
          /\ Count(last.trace, "Invoked") = 0
          /\ last.seen = NoSnapshot
          /\ last.outcome = NoOutcome
          /\ last.sent = <<>>

C5_Witness ==
    /\ Incompatible
    /\ auto_reload
    /\ package = NewPackage
    /\ actions = OldPackage
    /\ ActionCall(last.req).next_action = New

\* the completed call named no action and went past the version check and
\* the reload
Nameless ==
    /\ Decoded
    /\ ActionCall(last.req).next_action \in {"", Absent}
    /\ last.seen # NoSnapshot

\* C6: a call with no action name or an empty one gets a client-error
\* response, and no handler is invoked for it.
C6_NamelessIsClientError ==
    Nameless =>
        /\ last.resp.status \in 400 .. 499
        /\ Count(last.trace, "Invoked") = 0
        /\ last.sent = <<>>

\* C7: a call that has entered forwarding ends, also when the target never
\* answers.
C7_ForwardingEnds ==
    \A c \in Calls : (pc[c] = "forwarding") ~> (pc[c] # "forwarding")

\* C8: whatever the interleaving of reloads with webhook and /actions
\* calls, a lookup reads the complete registry of before the reload or the
\* complete set the loader produced, and a call in flight keeps the snapshot
\* it read; a lookup that starts after a reload reads the reloaded registry
\* and finds every action of it, the newly added ones included.
C8_NoTornRegistry ==
    [][/\ actions' \in {actions, package}
       /\ \A c \in Calls :
             /\ (pc[c] # "idle" /\ pc'[c] # "idle") => seen'[c] = seen[c]
             /\ (pc[c] = "idle" /\ pc'[c] # "idle") =>
                   /\ seen'[c] = actions'
                   /\ seen'[c] \in {actions, package}
                   /\ auto_reload => seen'[c] = package
                   /\ pc'[c] = "running" <=>
                         ActionCall(req'[c]).next_action \in Range(seen'[c])
       /\ (last' # last /\ last'.endpoint = "webhook" /\ last'.seen # NoSnapshot) =>
             /\ last'.seen \in {actions, package} \cup {seen[c] : c \in Calls}
             /\ last'.outcome.kind = "NotFound" <=>
                   ActionCall(last'.req).next_action \notin Range(last'.seen)
       /\ (last' # last /\ last'.endpoint = "actions" /\ last'.resp.status = 200) =>
             last'.resp.body \in {Listing(actions), Listing(package)}
      ]_vars

\* a call for an old name is in flight with the old snapshot while a later
\* call has found the newly added action in the reloaded registry
C8_Witness ==
    /\ auto_reload
    /\ actions = NewPackage
    /\ \E c, d \in Calls :
          /\ pc[c] = "running"
          /\ ActionCall(req[c]).next_action = Greet
          /\ seen[c] = OldPackage
          /\ pc[d] = "running"
          /\ ActionCall(req[d]).next_action = New
          /\ seen[d] = NewPackage

\* ------------------------------------------------ outcome state machine
Final(tr) == tr[Len(tr)]

\* the transitions of the outcome state machine, with the reload, the
\* lookup and the invocation as stages of their own
Transitions ==
    {<<"Received", "CompatibilityChecked">>,
     <<"Received", "InternalFailure">>,
     <<"CompatibilityChecked", "RejectedAtGate">>,
     <<"CompatibilityChecked", "Reload">>,
     <<"CompatibilityChecked", "Dispatched">>,
     <<"Reload", "Dispatched">>,
     <<"Reload", "InternalFailure">>,
     <<"Dispatched", "Lookup">>,
     <<"Lookup", "Invoked">>,
     <<"Lookup", "NotFound">>,
     <<"Invoked", "Success">>,
     <<"Invoked", "Rejected">>,
     <<"Invoked", "InternalFailure">>,
     <<"NotFound", "NotFoundFinal">>,
     <<"NotFound", "Forwarded">>,
     <<"Forwarded", "SuccessRemote">>,
     <<"Forwarded", "ForwardingFailed">>,
     <<"Forwarded", "InternalFailure">>}

TerminalStatus ==
    [RejectedAtGate |-> 500, Success |-> 200, Rejected |-> 400,
     NotFoundFinal |-> 404, SuccessRemote |-> 200, ForwardingFailed |-> 504,
     InternalFailure |-> 500, InvalidBody |-> 400]

ListedTerminals ==
    {"RejectedAtGate", "Success", "Rejected", "NotFoundFinal", "SuccessRemote",
     "ForwardingFailed", "InternalFailure"}

Follows(tr, edges) ==
    /\ Len(tr) >= 1
    /\ tr[1] = "Received"
    /\ \A i \in 1 .. Len(tr) - 1 : <<tr[i], tr[i + 1]>> \in edges

\* the state machine with the given transitions and terminal states: calls
\* in flight are on a path of it and have no response, and a completed call
\* has followed a path to one terminal state, the one of its dispatch
\* outcome, with the forwarding states under enable_forwarding only and
\* with the response status of its terminal state (the framework's status
\* when the exception handler could not echo the request body)
StateMachine(edges, terminals) ==
    /\ \A c \in Calls :
          /\ pc[c] = "idle" => trace[c] = <<>>
          /\ pc[c] # "idle" =>
                /\ Follows(trace[c], edges)
                /\ \A i \in DOMAIN trace[c] : trace[c][i] \notin DOMAIN TerminalStatus
                /\ Final(trace[c]) = IF pc[c] = "running" THEN "Invoked" ELSE "Forwarded"
          /\ pc[c] = "forwarding" => enable_forwarding
    /\ Served =>
          /\ Follows(last.trace, edges)
          /\ Final(last.trace) \in terminals
          /\ Count(last.trace, Final(last.trace)) = 1
          /\ \A i \in 1 .. Len(last.trace) - 1 :
                last.trace[i] \notin DOMAIN TerminalStatus
          /\ Count(last.trace, "NotFoundFinal") = 1 => ~enable_forwarding
          /\ Count(last.trace, "Forwarded") = 1 => enable_forwarding
          /\ Final(last.trace) = "Success" <=> last.outcome.kind = "Success"
          /\ Final(last.trace) = "Rejected" <=> last.outcome.kind = "Rejected"
          /\ Count(last.trace, "NotFound") = 1 <=> last.outcome.kind = "NotFound"
          /\ last.outcome.kind = "Error" => Final(last.trace) = "InternalFailure"
          /\ IF "framework" \in DOMAIN last.resp.body
             THEN /\ Final(last.trace) \in {"RejectedAtGate", "InternalFailure"}
                  /\ ~RequestJson(last.req).ok
             ELSE last.resp.status = TerminalStatus[Final(last.trace)]

ProtocolError ==
    /\ Served
    /\ RequestJson(last.req).ok
    /\ \/ ~DecodeBody(last.req).ok
       \/ DecodeBody(last.req).val.kind # "dict"
       \/ Incompatible

\* C10: a malformed or undecodable payload and an incompatible version are
\* answered with a client-error status, never with status 500, and do not
\* reach the registry or a handler.
C10_ProtocolErrorsAreClientErrors ==
    ProtocolError =>
        /\ last.resp.status \in 400 .. 499
        /\ Count(last.trace, "Lookup") = 0
        /\ Count(last.trace, "Invoked") = 0

\* C11: a request goes to the forwarding target only in a call whose local
\* dispatch yielded NotFound, with forwarding enabled; a call that succeeds
\* locally, fails at the gate, is rejected by its handler, fails with an
\* internal error or runs with forwarding disabled sends none.
C11_ForwardedOnlyWhenNotFound ==
    /\ \A c \in Calls :
          sent[c] # <<>> =>
              /\ enable_forwarding
              /\ outcome[c].kind = "NotFound"
              /\ ActionCall(req[c]).next_action \notin Range(seen[c])
    /\ (Served /\ last.sent # <<>>) =>
          /\ enable_forwarding
          /\ last.outcome.kind = "NotFound"
          /\ ActionCall(last.req).next_action \notin Range(last.seen)
    /\ (Served /\ last.reply # NoReply) => last.sent # <<>>
    /\ (Served /\ (\/ Final(last.trace) \in {"Success", "Rejected", "RejectedAtGate",
                                              "InvalidBody", "NotFoundFinal"}
                   \/ last.outcome.kind \in {"Success", "Rejected", "Error"}
                   \/ ~enable_forwarding)) =>
          last.sent = <<>>

\* a call whose action is not registered is waiting on the target while
\* another call is suspended in a local handler and has sent nothing
C11_Witness ==
    /\ enable_forwarding
    /\ \E c \in Calls :
          /\ pc[c] = "forwarding"
          /\ Len(sent[c]) = 1
          /\ outcome[c].kind = "NotFound"
    /\ \E c \in Calls : pc[c] = "running" /\ sent[c] = <<>>

FailureKinds == {"http_error", "unreachable", "not_json"}

\* C12: a call sends at most one request to the forwarding target; after a
\* failed attempt, of whatever kind, the call has ended with that one
\* request sent, and with the forwarding-failure response when the attempt
\* failed with a RequestException.
C12_SingleForwardingAttempt ==
    /\ \A c \in Calls :
          /\ Len(sent[c]) <= 1
          /\ pc[c] = "forwarding" <=> Len(sent[c]) = 1
          /\ Count(trace[c], "Forwarded") = Len(sent[c])
    /\ Served =>
          /\ Len(last.sent) <= 1
          /\ Count(last.trace, "Forwarded") = Len(last.sent)
          /\ last.reply # NoReply => Len(last.sent) = 1
          /\ last.reply.kind \in FailureKinds =>
                Final(last.trace) \in {"ForwardingFailed", "InternalFailure"}
          /\ last.reply.kind \in {"http_error", "unreachable"} =>
                last.resp =
                    Response(504, [error |-> <<"Forwarding request failed">>,
                                   action_name |-> ActionCall(last.req).next_action])

C12_Witness ==
    /\ Served
    /\ last.reply.kind = "http_error"
    /\ Len(last.sent) = 1
    /\ last.resp.status = 504

\* the completed call ended executor.run with a failure of its handler that
\* is neither a rejection nor a missing action
HandlerFailed == Served /\ last.outcome.kind = "Error"

\* C13: a failure of a handler other than rejection or not-found is not
\* treated as Success, Rejected or NotFound: no request is sent to the
\* target, with forwarding enabled or not, the call ends as an internal
\* failure, and its response is the 500 of the exception handler carrying
\* the message of the failure.
C13_HandlerFailureIsServerError ==
    HandlerFailed =>
        /\ last.sent = <<>>
        /\ last.reply = NoReply
        /\ Final(last.trace) = "InternalFailure"
        /\ Count(last.trace, "Invoked") = 1
        /\ last.resp.status = 500
        /\ "error" \in DOMAIN last.resp.body
        /\ last.resp.body.error = last.outcome.message

\* the request a forwarding target receives decodes to the same payload as
\* the request the webhook received
SamePayload(out, r) ==
    /\ Len(out) = 1
    /\ DecodeBody(out[1]).ok
    /\ DecodeBody(r).ok
    /\ DecodeBody(out[1]).val = DecodeBody(r).val

ForwardingFailure(name) ==
    Response(504, [error |-> <<"Forwarding request failed">>,
                   action_name |-> name])

\* C15: the forwarding-failure response is given only when the relay broke:
\* a call for an unregistered action whose target was reachable and answered with an HTTP error status
\* of its own (its 404 for an action it does not have) gets a response that
\* differs from the one given when the target is unreachable.
C15_TargetNotFoundDistinct ==
    (Served /\ last.reply.kind = "http_error"
            /\ ActionCall(last.req).next_action = Missing) =>
        last.resp # ForwardingFailure(ActionCall(last.req).next_action)

\* a webhook call arrived and had its response before giving up the event
\* loop
AnsweredAtOnce == pc' = pc /\ last' # last /\ last'.endpoint = "webhook"

\* C16: when the reload of hot-reload mode fails because the loader fails,
\* the registry that was active stays the active one, a complete set that
\* later lookups and listings read, and the request that triggered the
\* reload, /actions or a webhook call past the version check, is answered
\* with the loader's failure by the exception handler, not with a result.
C16_FailedReloadKeepsRegistry ==
    [][(auto_reload /\ ~Load(package).ok) =>
          /\ actions' = actions
          /\ actions' \in Snapshots
          /\ \A c \in Calls : pc[c] = "idle" => pc'[c] = "idle"
          /\ (last' # last /\ last'.endpoint = "actions") =>
                /\ last'.before = actions
                /\ last'.resp \in ExceptionResponses(GetRequest, Load(package).exc)
                /\ last'.resp.status # 200
          /\ (/\ AnsweredAtOnce
              /\ DecodeBody(last'.req).ok
              /\ DecodeBody(last'.req).val.kind = "dict"
              /\ Compatible(ActionCall(last'.req).version)) =>
                /\ Final(last'.trace) = "InternalFailure"
                /\ Count(last'.trace, "Reload") = 1
                /\ Count(last'.trace, "Lookup") = 0
                /\ last'.resp \in ExceptionResponses(last'.req, Load(package).exc)
                /\ last'.resp.status # 200
      ]_vars

\* /actions was asked with hot reload on and a package the loader fails on:
\* the registry is the complete set it was and the response is the 500
C16_Witness ==
    /\ last.endpoint = "actions"
    /\ auto_reload
    /\ ~Load(last.loaded).ok
    /\ actions = last.before
    /\ actions = NewPackage
    /\ last.resp.status = 500

\* C17: /actions answers with the names of the active registry, each once
\* and in the registry's insertion order; with hot reload on, the registry
\* is reloaded first and the list is of the registry after the reload; with
\* hot reload off, the call leaves the registry as it was.
C17_ActionsListsActiveRegistry ==
    last.endpoint = "actions" =>
        /\ last.resp.status = 200 =>
              LET b == last.resp.body IN
              /\ DOMAIN b = DOMAIN actions
              /\ \A i \in DOMAIN b : b[i] = [name |-> actions[i]]
              /\ \A i, j \in DOMAIN b : b[i].name = b[j].name => i = j
        /\ ~auto_reload =>
              /\ actions = last.before
              /\ last.resp.status = 200
        /\ (auto_reload /\ last.loaded \in Snapshots) =>
              /\ actions = last.loaded
              /\ last.resp.status = 200

\* with hot reload on, /actions found a package with one more action than
\* the registry had and listed both names
C17_Witness ==
    /\ last.endpoint = "actions"
    /\ auto_reload
    /\ last.before = OldPackage
    /\ last.loaded = NewPackage
    /\ last.resp = Response(200, <<[name |-> Greet], [name |-> New]>>)

\* the declared version is absent or of the server's major
SameMajor(v) == v = NoVersion \/ v[1] = ServerVersion[1]

\* C18: the compatibility gate lets a call proceed exactly when its version
\* is absent or has the server's major component, whatever its minor and
\* patch: such a call reaches dispatch (unless the reload of hot-reload
\* mode fails), any other call ends at the gate, and a call with version
\* 3.1.0 for a registered action whose handler succeeds gets the result
\* from a server of version 3.4.2.
C18_GateByMajorVersion ==
    /\ \A c \in Calls :
          pc[c] # "idle" => SameMajor(ActionCall(req[c]).version)
    /\ Decoded =>
          LET v == ActionCall(last.req).version
              name == ActionCall(last.req).next_action
          IN /\ Count(last.trace, "RejectedAtGate") = 0 <=> SameMajor(v)
             /\ SameMajor(v) =>
                   \/ Count(last.trace, "Dispatched") = 1
                   \/ /\ auto_reload
                      /\ last.trace = <<"Received", "CompatibilityChecked",
                                       "Reload", "InternalFailure">>
             /\ ~SameMajor(v) =>
                   /\ Final(last.trace) = "RejectedAtGate"
                   /\ Count(last.trace, "Dispatched") = 0
             /\ (v = <<3, 1, 0>> /\ last.outcome.kind = "Success") =>
                   last.resp = Response(200, ActionResult(name))

C18_Witness ==
    /\ Decoded
    /\ ServerVersion = <<3, 4, 2>>
    /\ ActionCall(last.req).version = <<3, 1, 0>>
    /\ ActionCall(last.req).next_action = Greet
    /\ last.outcome.kind = "Success"
    /\ last.resp.status = 200

Run(resp, tr, sn, o, out, reply) ==
    [resp |-> resp, trace |-> tr, seen |-> sn, outcome |-> o, sent |-> out,
     reply |-> reply]

\* the runs of the webhook for request r when no other call is in flight
AloneForwarded(r, e) ==
    UNION {{Run(a.resp, e.trace \o a.tail, e.seen, e.outcome,
                <<ForwardedRequest(ActionCall(r))>>, t) :
                a \in AfterForward(t, ActionCall(r).next_action, r)} :
            t \in TargetOutcomes}

AloneInvoked(r, e, fwd) ==
    UNION {{Run(a.resp, e.trace \o a.tail, e.seen, o, <<>>, NoReply) :
                a \in AfterRun(o, r, fwd)} :
            o \in HandlerOutcomes(ActionCall(r).next_action)}

AloneRuns(r, reg, pkg, ar, fwd) ==
    UNION {CASE e.next = "done" ->
                  {Run(e.resp, e.trace, e.seen, e.outcome, <<>>, NoReply)}
             [] e.next = "running" -> AloneInvoked(r, e, fwd)
             [] OTHER -> AloneForwarded(r, e) :
           e \in WebhookEntry(r, reg, pkg, ar, fwd)}

\* the stages a call in flight has behind it are those of its own request
OwnStages(c) ==
    \E reg \in Snapshots, pkg \in Packages :
       \E e \in WebhookEntry(req[c], reg, pkg, auto_reload, enable_forwarding) :
          /\ ~auto_reload => reg = actions
          /\ e.next = pc[c]
          /\ e.trace = trace[c]
          /\ e.seen = seen[c]
          /\ e.outcome = outcome[c]

\* C19: concurrent webhook calls do not interfere.  A completed call, in
\* whatever interleaving with calls for the same or other names, has a
\* response, stages, dispatch outcome and forwarded request that the call
\* has when it runs alone against the registry it saw; a call in flight
\* holds only what comes from its own request, and a slot whose call has
\* ended keeps nothing of it.
C19_CallsDoNotInterfere ==
    /\ \A c \in Calls :
          IF pc[c] = "idle"
          THEN /\ req[c] = NoRequest
               /\ trace[c] = <<>>
               /\ seen[c] = NoSnapshot
               /\ outcome[c] = NoOutcome
               /\ sent[c] = <<>>
          ELSE OwnStages(c)
    /\ Served =>
          \E reg \in Snapshots, pkg \in Packages :
             /\ ~auto_reload => reg = actions
             /\ Run(last.resp, last.trace, last.seen, last.outcome, last.sent,
                    last.reply)
                   \in AloneRuns(last.req, reg, pkg, auto_reload,
                                 enable_forwarding)

\* a call for an action ended with its handler's result while another call
\* for the same action was suspended in its handler
C19_Witness ==
    /\ Served
    /\ last.outcome.kind = "Success"
    /\ \E c \in Calls :
          /\ pc[c] = "running"
          /\ ActionCall(req[c]).next_action = ActionCall(last.req).next_action

\* C20: while the forwarding request of one call is outstanding, the server
\* can answer /health and /actions and can complete another webhook call
\* whose handler has finished.
C20_ForwardingDoesNotBlock ==
    Blocked =>
        /\ ENABLED Health
        /\ ENABLED Actions
        /\ \A c \in Calls : pc[c] = "running" => ENABLED HandlerReturns(c)

====
